---- MODULE Spec2Model ----
(***************************************************************************)
(* Model of the two leaderboard scrapers of scraper_utility:               *)
(*   scrape_leaderboard             (agent-driven, nova-act)               *)
(*   scrape_leaderboard_playwright  (DOM-driven, playwright)               *)
(* One run of one front-end is one behaviour; the front-end, its options   *)
(* and the environment are chosen in Init, the answers of the page and of  *)
(* the agent are chosen when the corresponding call is made.               *)
(***************************************************************************)
EXTENDS Integers, Sequences, FiniteSets, TLC

\* ------------------------------------------------------------------ bounds
MaxLimit == 2       \* largest target count (limit) tried
MaxScrolls == 1     \* largest scroll count (scrolls) tried
MaxBatch == 2       \* most candidates / raw lines / table rows in one answer
MaxText == 3        \* longest generated cell text, in characters
MaxFrags == 2       \* most fragments in the details region of a row

\* ------------------------------------------------------- python values
None == "<None>"        \* Python None
Absent == "<absent>"    \* a key the dict does not have
ListVal == "<list>"     \* a non-empty list used as a field value (unhashable)

\* truthiness of a scalar field value (None and '' are falsy)
Truthy(x) == x \notin {None, "", Absent}

\* a or b
PyOr(a, b) == IF Truthy(a) THEN a ELSE b

\* entry.get(k): None when the key is missing
Get(e, k) == IF e[k] = Absent THEN None ELSE e[k]

\* str.strip() on the titles the model uses
Strip(s) == IF s = " t1 " THEN "t1" ELSE s

\* ------------------------------------------------- candidate records
Entry(du, dsu, st, t, hp, hpu, n) ==
    [isdict |-> TRUE, directSpaceUrl |-> du, direct_space_url |-> dsu,
     spaceTitle |-> st, title |-> t, hostProfileUrl |-> hp,
     host_profile_url |-> hpu, direct_link_guess |-> Absent, listeners |-> n]

\* an item of the answer that is not a dict (a bare string)
NonDict ==
    [isdict |-> FALSE, directSpaceUrl |-> Absent, direct_space_url |-> Absent,
     spaceTitle |-> Absent, title |-> Absent, hostProfileUrl |-> Absent,
     host_profile_url |-> Absent, direct_link_guess |-> Absent, listeners |-> 0]

\* the entry the manual parse builds from one regex match (lines 100-103)
GuessEntry(title, url) ==
    [isdict |-> TRUE, directSpaceUrl |-> Absent, direct_space_url |-> Absent,
     spaceTitle |-> Strip(title), title |-> Absent, hostProfileUrl |-> Absent,
     host_profile_url |-> Absent, direct_link_guess |-> Strip(url), listeners |-> 0]

\* the items the agent may return inside a list
Items ==
    { Entry("u1", Absent, "t1", Absent, "h1", Absent, 1),     \* url + title + host
      Entry(Absent, "u1", "t2", Absent, Absent, Absent, 2),   \* same url, other fields
      Entry(Absent, Absent, "t1", Absent, "h1", Absent, 1),   \* title + host only
      Entry(None, Absent, Absent, "t1", Absent, "h1", 2),     \* same pair, other fields
      Entry(Absent, Absent, Absent, Absent, Absent, Absent, 1), \* none of the three
      Entry("", Absent, "t2", Absent, Absent, Absent, 1),     \* title without host
      Entry(ListVal, Absent, "t1", Absent, "h1", Absent, 1),  \* unhashable url
      NonDict }

\* ------------------------------------------------------ identity keys
\* a key is the url string or the (title, host) tuple
UrlKey(u) == [kind |-> "url", a |-> u, b |-> None]
PairKey(t, h) == [kind |-> "pair", a |-> t, b |-> h]

\* key derivation of the merge step (lines 142-147)
DirectUrl(e) == PyOr(Get(e, "directSpaceUrl"), Get(e, "direct_space_url"))
TitleOf(e) == PyOr(Get(e, "spaceTitle"), Get(e, "title"))
HostUrl(e) == PyOr(Get(e, "hostProfileUrl"), Get(e, "host_profile_url"))

\* mutant: the (title, host) pair is preferred to the url
DeriveKey_PairFirst(e) ==
    IF Truthy(TitleOf(e)) /\ Truthy(HostUrl(e)) THEN PairKey(TitleOf(e), HostUrl(e))
    ELSE IF Truthy(DirectUrl(e)) THEN UrlKey(DirectUrl(e))
    ELSE PairKey(TitleOf(e), HostUrl(e))

DeriveKey(e) ==
    IF Truthy(DirectUrl(e)) THEN UrlKey(DirectUrl(e))
    ELSE PairKey(TitleOf(e), HostUrl(e))

\* `if key`: a string is truthy when non-empty, a 2-tuple always
KeyTruthy(key) == key.kind = "pair" \/ Truthy(key.a)

\* `key in processed_keys` hashes the key: a list inside it raises TypeError
Hashable(key) == key.a # ListVal /\ key.b # ListVal

\* mutant: the membership test is forgotten
Accepts_NoDedup(key, keys) == KeyTruthy(key)

\* line 149 (and 105): key and key not in processed_keys
Accepts(key, keys) == KeyTruthy(key) /\ key \notin keys

\* mutant: the manual parse keeps its keys apart from the structured ones
GuessKey_Separate(e) == [kind |-> "guess", a |-> e.direct_link_guess, b |-> None]

\* key of the manual parse (line 104)
GuessKey(e) == UrlKey(e.direct_link_guess)

\* ------------------------------------------------- answers of the agent
RECURSIVE SeqsUpTo(_, _)
SeqsUpTo(S, n) ==
    IF n = 0 THEN {<<>>}
    ELSE LET shorter == SeqsUpTo(S, n - 1)
         IN  shorter \cup {Append(q, x) : q \in {r \in shorter : Len(r) = n - 1}, x \in S}

\* one line of the raw text: does the regex of line 95 match it, and its groups
Lines ==
    { [matches |-> TRUE, title |-> " t1 ", url |-> "u1"],
      [matches |-> TRUE, title |-> "t3", url |-> "u3"],
      [matches |-> FALSE, title |-> "", url |-> ""] }

NoAttr == [has |-> FALSE, isstr |-> FALSE, lines |-> <<>>]
NoneAttr == [has |-> TRUE, isstr |-> FALSE, lines |-> <<>>]
StrAttr(ls) == [has |-> TRUE, isstr |-> TRUE, lines |-> ls]
RawTexts == {StrAttr(ls) : ls \in SeqsUpTo(Lines, MaxBatch)}

ListShapes == {"list", "dict_entries", "dict_list"}
EmptyShapes == {"none", "dict_empty", "dict_nolist", "other"}
\* the structured payloads tried: lists of up to MaxBatch items, dicts holding a
\* list of at most one item, and the shapes that hold no list; a dict without a
\* list value may still hold an entry as a value (its items)
Payloads ==
    {[shape |-> "list", items |-> its] : its \in SeqsUpTo(Items, MaxBatch)}
    \cup {[shape |-> s, items |-> its] :
            s \in {"dict_entries", "dict_list"}, its \in SeqsUpTo(Items, 1)}
    \cup {[shape |-> s, items |-> <<>>] : s \in EmptyShapes}
    \cup {[shape |-> "dict_nolist", items |-> <<it>>] : it \in Items}

\* `not extracted_data` is false for these
PayloadTruthy(p) ==
    CASE p.shape = "list" -> p.items # <<>>
      [] p.shape \in {"none", "dict_empty"} -> FALSE
      [] OTHER -> TRUE

Result(err, p, raw, alt) ==
    [error |-> err, parsed_response |-> p, raw_response |-> raw, response |-> alt]

Results ==
    {Result(TRUE, [shape |-> "none", items |-> <<>>], NoAttr, NoAttr)}
    \cup {Result(FALSE, p, NoAttr, NoAttr) : p \in Payloads}
    \cup {Result(FALSE, p, StrAttr(<<CHOOSE l \in Lines : l.title = "t3">>), NoAttr) :
            p \in {q \in Payloads : Len(q.items) <= 1}}
    \cup {Result(FALSE, p, raw, NoAttr) :
            p \in {q \in Payloads : ~PayloadTruthy(q)}, raw \in RawTexts \cup {NoneAttr}}
    \cup {Result(FALSE, p, NoAttr, alt) :
            p \in {q \in Payloads : ~PayloadTruthy(q)}, alt \in RawTexts}

\* lines 77-83: raw_response if the attribute exists, else response
RawAgentResponse(result) ==
    IF result.raw_response.has THEN result.raw_response
    ELSE IF result.response.has THEN result.response
    ELSE NoneAttr

\* re.findall of line 95 over the raw text: the matching lines, in order
FindAll(raw) == SelectSeq(raw.lines, LAMBDA l : l.matches)

\* lines 96-103: the entries built from the matches
RECURSIVE GuessEntries(_)
GuessEntries(ms) ==
    IF ms = <<>> THEN <<>>
    ELSE <<GuessEntry(Head(ms).title, Head(ms).url)>> \o GuessEntries(Tail(ms))

\* line 90: manual parse is tried
TriesManual(result) ==
    ~PayloadTruthy(result.parsed_response) /\ RawAgentResponse(result).isstr

\* mutant: whatever the payload holds is taken for the entries
Normalize_AnyShape(p) == p.items

\* lines 120-132: the list of entries found in the structured payload
Normalize(p) == IF p.shape \in ListShapes THEN p.items ELSE <<>>

\* ------------------------------------------------------------ the state
VARIABLES
    fe,             \* which front-end runs: "agent" or "dom"
    limit,          \* option limit (target count)
    scrolls,        \* option scrolls
    env_key,        \* 'NOVA_ACT_API_KEY' in os.environ
    pc,             \* position of the run in the function
    session,        \* NovaAct session / browser: "none", "open", "closed", "stopped"
    i,              \* loop variable i (round index, or row index in the DOM run)
    all_entries,    \* accepted records in acceptance order
    processed_keys, \* set of identity keys (the keys of the dict in the DOM run)
    pending,        \* items of the current answer the for loop has not visited yet
    round_status,   \* how the current round went: "ok", "error", "raised"
    act_calls,      \* extraction calls issued so far
    scroll_calls,   \* scroll actions issued so far
    failed,         \* an exception reached the except clause of the session
    output,         \* the output file: "untouched", "written", "failed" and its data
    rows,           \* DOM run: the table rows the chosen selector strategy found
    processed_count, \* DOM run: processed_count
    error_count,    \* DOM run: error_count
    clock,          \* DOM run: the last value time.time() returned
    first_seen,     \* history: for each key that reached the dedup test, its first candidate
    dups,           \* history: the kinds of repeated candidates met so far: "same"
                    \* (equal to the first with its key) and "other" (other field values)
    fn_pc,          \* row adapter: which piece of extract_data_from_row runs
    text,           \* row adapter: the text content of the cell being read
    number,         \* row adapter: the numeric field computed from text
    details,        \* row adapter: fragments of details_text_list not yet scanned
    fields,         \* row adapter: the four fields the details scan fills
    scanned,        \* row adapter history: the fragments already scanned
    fatal,          \* history: what raised the exception that ended the run, or "none"
    no_list         \* history: the last answer held no list and no enumerated line

vars ==
    <<fe, limit, scrolls, env_key, pc, session, i, all_entries, processed_keys,
      pending, round_status, act_calls, scroll_calls, failed, output,
      rows, processed_count, error_count, clock, first_seen, dups,
      fn_pc, text, number, details, fields, scanned, fatal, no_list>>

dom_vars == <<rows, processed_count, error_count, clock>>
hist_vars == <<first_seen, dups>>
fn_vars == <<fn_pc, text, number, details, fields, scanned>>
note_vars == <<fatal, no_list>>

\* the record of the history variable first_seen
Offer(key, e) == [key |-> key, entry |-> e]

\* what the dedup test of a candidate e with key `key` leaves in the history
Offered(key, e) ==
    IF \E p \in first_seen : p.key = key
    THEN /\ first_seen' = first_seen
         /\ dups' = dups \cup {IF Offer(key, e) \in first_seen THEN "same" ELSE "other"}
    ELSE /\ first_seen' = first_seen \cup {Offer(key, e)}
         /\ UNCHANGED dups

NoFile == [state |-> "untouched", data |-> <<>>]

Init ==
    /\ fe \in {"agent", "dom"}
    /\ limit \in 0..MaxLimit
    /\ scrolls \in 0..MaxScrolls
    /\ env_key \in (IF fe = "agent" THEN BOOLEAN ELSE {TRUE})
    /\ pc = "start"
    /\ session = "none"
    /\ i = 0
    /\ all_entries = <<>>
    /\ processed_keys = {}
    /\ pending = <<>>
    /\ round_status = "ok"
    /\ act_calls = 0
    /\ scroll_calls = 0
    /\ failed = FALSE
    /\ output = NoFile
    /\ rows = <<>>
    /\ processed_count = 0
    /\ error_count = 0
    /\ clock = 0
    /\ first_seen = {}
    /\ dups = {}
    /\ fn_pc = "idle"
    /\ text = <<>>
    /\ number = [kind |-> "None", val |-> 0]
    /\ details = <<>>
    /\ fields = [space_ended_time_str |-> <<"<None>">>,
                 space_speakers_count |-> [kind |-> "None", val |-> 0],
                 space_speaker_followers |-> [kind |-> "None", val |-> 0],
                 space_duration_str |-> <<"<None>">>]
    /\ scanned = <<>>
    /\ fatal = "none"
    /\ no_list = FALSE

\* ------------------------------------------- pieces of the merge step
\* mutant: the target is never found reached
TargetReached_Never(n, lim) == FALSE

\* mutant: the list is rebound to the new entry instead of being appended to
StoreEntry_Rebind(entries, e) == <<e>>

\* all_entries.append(entry)
StoreEntry(entries, e) == Append(entries, e)

\* mutant: the key is never registered
AddKey_Forgotten(keys, key) == keys

\* processed_keys.add(key)
AddKey(keys, key) == keys \cup {key}

\* mutant: the target must be exceeded, not reached
TargetReached_Strict(n, lim) == n > lim

\* line 165: len(all_entries) >= limit
TargetReached(n, lim) == n >= lim

\* mutant: one scroll too many
CanScroll_OneMore(idx, n) == idx <= n

\* line 170: i < scrolls
CanScroll(idx, n) == idx < n

\* mutant: an error answer ends the loop
CanRetry_Never(idx, n) == FALSE

\* mutant: the error path scrolls once more after the last round
CanRetry_OneMore(idx, n) == idx <= n

\* line 67: i < scrolls on the error path
CanRetry(idx, n) == idx < n

\* mutant: the dict entry is assigned whether or not the id is known
IsNewId_Always(id, keys) == TRUE

\* line 263 of the DOM run: entry_data['id'] not in all_entries
IsNewId(id, keys) == id \notin keys

\* mutant: the run goes on without the key
HasApiKey_Always(k) == TRUE

\* line 37: 'NOVA_ACT_API_KEY' in os.environ
HasApiKey(k) == k

\* mutant: the save does not look at the list
HasEntries_Always(entries) == TRUE

\* line 183 `if all_entries:` (DOM run: line 302 `if entries_list:`)
HasEntries(entries) == entries # <<>>

\* mutant: the handler returns instead of falling through to the save
AfterFailure_Return == "done"

\* lines 177-180: after `except Exception` the run goes on to the save
AfterFailure == "finish"

\* ------------------------------------------------ agent-driven run
\* lines 37-39: the credential check
CheckEnv ==
    /\ fe = "agent" /\ pc = "start"
    /\ pc' = IF HasApiKey(env_key) THEN "enter" ELSE "done"
    /\ UNCHANGED note_vars
    /\ UNCHANGED fn_vars
    /\ UNCHANGED <<fe, limit, scrolls, env_key, session, i, all_entries,
                   processed_keys, pending, round_status, act_calls, scroll_calls,
                   failed, output,
                   dom_vars, hist_vars>>

\* lines 45-52: the session starts (or raises), the loop begins with i = 0
EnterSession ==
    /\ pc = "enter"
    /\ \/ /\ session' = "open"
          /\ i' = 0
          /\ pc' = "act"
          /\ UNCHANGED <<failed, fatal>>
       \/ /\ failed' = TRUE
          /\ fatal' = "start"
          /\ pc' = AfterFailure
          /\ UNCHANGED <<session, i>>
    /\ UNCHANGED no_list
    /\ UNCHANGED fn_vars
    /\ UNCHANGED <<fe, limit, scrolls, env_key, all_entries, processed_keys,
                   pending, round_status, act_calls, scroll_calls, output,
                   dom_vars, hist_vars>>

\* lines 59-135: one extraction call and the shape-sniffing of its answer
Act ==
    /\ pc = "act"
    /\ act_calls' = act_calls + 1
    /\ \/ \* nova.act raises: the with block closes the session, line 177 catches
          /\ failed' = TRUE
          /\ fatal' = "extraction"
          /\ session' = "closed"
          /\ pc' = AfterFailure
          /\ no_list' = FALSE
          /\ UNCHANGED <<pending, round_status>>
       \/ \E result \in Results :
            /\ UNCHANGED <<failed, session, fatal>>
            /\ IF result.error
               THEN \* lines 65-70
                    /\ round_status' = "error"
                    /\ pc' = IF CanRetry(i, scrolls) THEN "errscroll" ELSE "exit"
                    /\ no_list' = FALSE
                    /\ UNCHANGED pending
               ELSE /\ round_status' = "ok"
                    /\ IF TriesManual(result) /\ FindAll(RawAgentResponse(result)) # <<>>
                       THEN /\ pending' = GuessEntries(FindAll(RawAgentResponse(result)))
                            /\ pc' = "manual"
                            /\ no_list' = FALSE
                       ELSE /\ pending' = Normalize(result.parsed_response)
                            /\ pc' = IF pending' # <<>> THEN "merge" ELSE "check"
                            /\ no_list' = (result.parsed_response.shape \notin ListShapes)
    /\ UNCHANGED fn_vars
    /\ UNCHANGED <<fe, limit, scrolls, env_key, i, all_entries, processed_keys,
                   scroll_calls, output,
                   dom_vars, hist_vars>>

\* lines 98-108: one match of the manual parse
ManualEntry ==
    /\ pc = "manual"
    /\ LET e == Head(pending)
           key == GuessKey(e)
       IN  /\ Offered(key, e)
           /\ IF Accepts(key, processed_keys)
              THEN /\ all_entries' = StoreEntry(all_entries, e)
                   /\ processed_keys' = AddKey(processed_keys, key)
              ELSE UNCHANGED <<all_entries, processed_keys>>
    /\ pending' = Tail(pending)
    /\ pc' = IF pending' = <<>> THEN "check" ELSE "manual"
    /\ UNCHANGED fn_vars
    /\ UNCHANGED <<fe, limit, scrolls, env_key, session, i, round_status,
                   act_calls, scroll_calls, failed, output,
                   dom_vars, note_vars>>

\* lines 136-162: one item of current_entries
MergeEntry ==
    /\ pc = "merge"
    /\ LET e == Head(pending)
           key == DeriveKey(e)
       IN  IF ~e.isdict
           THEN \* lines 137-139
                /\ pending' = Tail(pending)
                /\ UNCHANGED <<all_entries, processed_keys, round_status, hist_vars>>
           ELSE IF KeyTruthy(key) /\ ~Hashable(key)
           THEN \* TypeError in `key not in processed_keys`, caught at line 159
                /\ pending' = <<>>
                /\ round_status' = "raised"
                /\ UNCHANGED <<all_entries, processed_keys, hist_vars>>
           ELSE /\ pending' = Tail(pending)
                /\ UNCHANGED round_status
                /\ Offered(key, e)
                /\ IF Accepts(key, processed_keys)
                   THEN /\ all_entries' = StoreEntry(all_entries, e)
                        /\ processed_keys' = AddKey(processed_keys, key)
                   ELSE UNCHANGED <<all_entries, processed_keys>>
    /\ pc' = IF pending' = <<>> THEN "check" ELSE "merge"
    /\ UNCHANGED fn_vars
    /\ UNCHANGED <<fe, limit, scrolls, env_key, session, i, act_calls,
                   scroll_calls, failed, output,
                   dom_vars, note_vars>>

\* lines 164-172: the target check and the decision to scroll
Check ==
    /\ pc = "check"
    /\ pc' = IF TargetReached(Len(all_entries), limit) THEN "exit"
             ELSE IF CanScroll(i, scrolls) THEN "scroll"
             ELSE "exit"
    /\ UNCHANGED note_vars
    /\ UNCHANGED fn_vars
    /\ UNCHANGED <<fe, limit, scrolls, env_key, session, i, all_entries,
                   processed_keys, pending, round_status, act_calls, scroll_calls,
                   failed, output,
                   dom_vars, hist_vars>>

\* the scroll call: it returns and the loop goes to i + 1, or it raises
DoScroll ==
    /\ scroll_calls' = scroll_calls + 1
    /\ \/ /\ i' = i + 1
          /\ pc' = "act"
          /\ UNCHANGED <<failed, session, fatal>>
       \/ /\ failed' = TRUE
          /\ fatal' = "scroll"
          /\ session' = "closed"
          /\ pc' = AfterFailure
          /\ UNCHANGED i
    /\ UNCHANGED no_list
    /\ UNCHANGED fn_vars
    /\ UNCHANGED <<fe, limit, scrolls, env_key, all_entries, processed_keys,
                   pending, round_status, act_calls, output,
                   dom_vars, hist_vars>>

\* line 172
Scroll == pc = "scroll" /\ DoScroll

\* line 69
ScrollAfterError == pc = "errscroll" /\ DoScroll

\* the with block ends: the session is closed (closing may raise, line 177)
ExitSession ==
    /\ pc = "exit"
    /\ session' = "closed"
    /\ \/ UNCHANGED <<failed, fatal>>
       \/ failed' = TRUE /\ fatal' = "close"
    /\ pc' = "finish"
    /\ UNCHANGED no_list
    /\ UNCHANGED fn_vars
    /\ UNCHANGED <<fe, limit, scrolls, env_key, i, all_entries, processed_keys,
                   pending, round_status, act_calls, scroll_calls, output,
                   dom_vars, hist_vars>>

\* lines 180-194: the save
Finish ==
    /\ fe = "agent" /\ pc = "finish"
    /\ IF HasEntries(all_entries)
       THEN \/ output' = [state |-> "written", data |-> all_entries]
            \/ output' = [state |-> "failed", data |-> <<>>]
       ELSE UNCHANGED output
    /\ pc' = "done"
    /\ UNCHANGED note_vars
    /\ UNCHANGED fn_vars
    /\ UNCHANGED <<fe, limit, scrolls, env_key, session, i, all_entries,
                   processed_keys, pending, round_status, act_calls, scroll_calls,
                   failed,
                   dom_vars, hist_vars>>

\* ------------------------------------------------- DOM-driven run
\* str() inside the f-string of line 97
Str(x) == IF x = None THEN "None" ELSE x

Row(o, d, pl, h, t, n, href) ==
    [outcome |-> o, space_details_url |-> d, direct_play_url |-> pl,
     host_handle |-> h, space_title |-> t, listener_count |-> n, href |-> href]

\* the rows the page may show; outcome says how extract_data_from_row ends on
\* the row: "ok", "timeout" (PlaywrightTimeoutError) or "error" (another exception);
\* href is what the fallback lookup of line 106 returns ("<raises>" when it raises)
Rows ==
    { Row("ok", "d1", "p1", "@a", "s1", 1, "d1"),
      Row("ok", "d1", None, "@b", "s2", 2, "d1"),
      Row("ok", None, "p1", "@a", "s1", 1, None),
      Row("ok", None, None, None, None, 1, None),
      Row("timeout", None, None, None, None, 0, "d1"),
      Row("timeout", None, None, None, None, 0, "<raises>"),
      Row("error", None, None, None, None, 0, None) }

DomEntry(id, err, r) ==
    [id |-> id, error |-> err, space_details_url |-> r.space_details_url,
     direct_play_url |-> r.direct_play_url, host_handle |-> r.host_handle,
     space_title |-> r.space_title, listener_count |-> r.listener_count]

ErrorEntry(id, err) ==
    [id |-> id, error |-> err, space_details_url |-> Absent,
     direct_play_url |-> Absent, host_handle |-> Absent,
     space_title |-> Absent, listener_count |-> Absent]

\* line 97
RowId(r) ==
    PyOr(PyOr(r.space_details_url, r.direct_play_url),
         Str(r.host_handle) \o "-" \o Str(r.space_title))

\* f"error_row_{time.time()}"
ErrorRowId(ts) == "error_row_" \o ToString(ts)

\* lines 31-115: the entry extract_data_from_row returns when time.time() is ts
ExtractDataFromRow(r, ts) ==
    CASE r.outcome = "ok" -> DomEntry(RowId(r), Absent, r)
      [] r.outcome = "timeout" ->
            ErrorEntry(PyOr(IF r.href = "<raises>" THEN None ELSE r.href, ErrorRowId(ts)),
                       "timeout")
      [] OTHER -> ErrorEntry(ErrorRowId(ts), "exception")

\* all_entries[key] = entry on the dict kept as (values in insertion order, keys)
DictAssign(entries, key, e) ==
    IF \E k \in 1..Len(entries) : entries[k].id = key
    THEN [k \in 1..Len(entries) |-> IF entries[k].id = key THEN e ELSE entries[k]]
    ELSE Append(entries, e)

\* mutant: a failure-marked entry passes for a record
NoError_Always(e) == TRUE

\* line 264: 'error' not in entry_data
NoError(e) == e.error = Absent

\* lines 133-136: playwright starts and the browser is launched
Launch ==
    /\ fe = "dom" /\ pc = "start"
    /\ \/ /\ session' = "open"
          /\ pc' = "goto"
          /\ UNCHANGED <<failed, fatal>>
       \/ \* chromium.launch raises: browser stays None
          /\ failed' = TRUE
          /\ fatal' = "start"
          /\ pc' = "finally"
          /\ UNCHANGED session
       \/ \* sync_playwright() raises outside the try block
          /\ pc' = "escaped"
          /\ fatal' = "start"
          /\ UNCHANGED <<session, failed>>
    /\ UNCHANGED no_list
    /\ UNCHANGED fn_vars
    /\ UNCHANGED <<fe, limit, scrolls, env_key, i, all_entries, processed_keys,
                   pending, round_status, act_calls, scroll_calls, output, dom_vars, hist_vars>>

\* lines 137-230: navigation and the choice of the selector strategy
Goto ==
    /\ pc = "goto"
    /\ \/ \* an exception of new_page, goto, screenshot or a locator
          /\ failed' = TRUE
          /\ fatal' = "navigation"
          /\ pc' = "finally"
          /\ UNCHANGED <<rows, i, act_calls>>
       \/ \* lines 206-223: no strategy finds a row, return
          /\ pc' = "finally_return"
          /\ UNCHANGED <<rows, i, act_calls, failed, fatal>>
       \/ \E rs \in SeqsUpTo(Rows, MaxBatch) \ {<<>>} :
            /\ rows' = rs
            /\ i' = 0
            /\ act_calls' = act_calls + 1
            /\ pc' = "rows"
            /\ UNCHANGED <<failed, fatal>>
    /\ UNCHANGED no_list
    /\ UNCHANGED fn_vars
    /\ UNCHANGED <<fe, limit, scrolls, env_key, session, all_entries,
                   processed_keys, pending, round_status, scroll_calls, output,
                   processed_count, error_count, clock, hist_vars>>

\* lines 232-280: one iteration of the row loop
ProcessRow ==
    /\ pc = "rows"
    /\ IF i >= Len(rows) \/ TargetReached(Len(all_entries), limit)
       THEN \* the range is exhausted, or the break of line 235
            /\ pc' = "close"
            /\ UNCHANGED <<i, all_entries, processed_keys, processed_count,
                           error_count, clock, hist_vars>>
       ELSE \E ts \in {clock, clock + 1} :
            LET entry_data == ExtractDataFromRow(rows[i + 1], ts)
            IN  /\ clock' = IF entry_data.error = Absent THEN clock ELSE ts
                /\ i' = i + 1
                /\ pc' = "rows"
                /\ IF Truthy(entry_data.id) /\ entry_data.error = Absent
                   THEN Offered(entry_data.id, entry_data)
                   ELSE UNCHANGED hist_vars
                /\ IF Truthy(entry_data.id)
                   THEN IF IsNewId(entry_data.id, processed_keys)
                        THEN IF NoError(entry_data)
                             THEN /\ all_entries' =
                                        DictAssign(all_entries, entry_data.id, entry_data)
                                  /\ processed_keys' =
                                        AddKey(processed_keys, entry_data.id)
                                  /\ processed_count' = processed_count + 1
                                  /\ UNCHANGED error_count
                             ELSE /\ error_count' = error_count + 1
                                  /\ UNCHANGED <<all_entries, processed_keys,
                                                 processed_count>>
                        ELSE UNCHANGED <<all_entries, processed_keys,
                                         processed_count, error_count>>
                   ELSE /\ error_count' = error_count + 1
                        /\ UNCHANGED <<all_entries, processed_keys, processed_count>>
    /\ UNCHANGED note_vars
    /\ UNCHANGED fn_vars
    /\ UNCHANGED <<fe, limit, scrolls, env_key, session, pending, round_status,
                   act_calls, scroll_calls, failed, output, rows>>

\* line 287: browser.close() after the loop (it may raise, lines 289-294)
CloseBrowser ==
    /\ pc = "close"
    /\ \/ session' = "closed" /\ UNCHANGED <<failed, fatal>>
       \/ failed' = TRUE /\ fatal' = "close" /\ UNCHANGED session
    /\ pc' = "finally"
    /\ UNCHANGED no_list
    /\ UNCHANGED fn_vars
    /\ UNCHANGED <<fe, limit, scrolls, env_key, i, all_entries, processed_keys,
                   pending, round_status, act_calls, scroll_calls, output, dom_vars, hist_vars>>

\* mutant: the finally clause takes the browser for never launched
BrowserStarted_Never(s) == FALSE

\* line 296: `if browser`
BrowserStarted(s) == s # "none"

\* lines 295-298: the finally clause, then the return of line 223 if taken. The
\* `with sync_playwright()` block of line 133 is left right after it: playwright
\* stops and ends a browser that is still open ("stopped").
Finally ==
    /\ pc \in {"finally", "finally_return"}
    /\ IF ~BrowserStarted(session)
       THEN /\ pc' = IF pc = "finally" THEN "finish" ELSE "done"
            /\ session' = IF session = "open" THEN "stopped" ELSE session
            /\ UNCHANGED fatal
       ELSE \/ /\ session' = "closed"
               /\ pc' = IF pc = "finally" THEN "finish" ELSE "done"
               /\ UNCHANGED fatal
            \/ \* browser.close() raises inside finally: nothing catches it
               /\ pc' = "escaped"
               /\ fatal' = "close"
               /\ session' = IF session = "open" THEN "stopped" ELSE session
    /\ UNCHANGED no_list
    /\ UNCHANGED fn_vars
    /\ UNCHANGED <<fe, limit, scrolls, env_key, i, all_entries, processed_keys,
                   pending, round_status, act_calls, scroll_calls, failed, output,
                   dom_vars, hist_vars>>

\* lines 300-314: the save
DomSave ==
    /\ fe = "dom" /\ pc = "finish"
    /\ IF HasEntries(all_entries)
       THEN \/ output' = [state |-> "written", data |-> all_entries]
            \/ output' = [state |-> "failed", data |-> <<>>]
       ELSE UNCHANGED output
    /\ pc' = "done"
    /\ UNCHANGED note_vars
    /\ UNCHANGED fn_vars
    /\ UNCHANGED <<fe, limit, scrolls, env_key, session, i, all_entries,
                   processed_keys, pending, round_status, act_calls, scroll_calls,
                   failed, dom_vars, hist_vars>>

\* ------------------------------------------- the cell texts of a table row
\* A Python str is a sequence of one-character strings; a label of the details
\* region ("Ended:", "Speakers:", ...) and a month name stand as one element.
NoneText == <<"<None>">>    \* text_content() gave None

\* a Python int, or None, or the ValueError int() raises
SomeInt(n) == [kind |-> "int", val |-> n]
NoInt == [kind |-> "None", val |-> 0]
ValueError == [kind |-> "ValueError", val |-> 0]

Digits == {"0", "1", "2", "3", "4", "5", "6", "7", "8", "9"}

DigitValue(c) ==
    CASE c = "0" -> 0 [] c = "1" -> 1 [] c = "2" -> 2 [] c = "3" -> 3 [] c = "4" -> 4
      [] c = "5" -> 5 [] c = "6" -> 6 [] c = "7" -> 7 [] c = "8" -> 8 [] c = "9" -> 9

\* `if text` / `if not text` on a str or None
TextTruthy(t) == t # NoneText /\ t # <<>>

\* substring test `label in text` for a label or a month name
Has(t, w) == \E k \in 1..Len(t) : t[k] = w

RECURSIVE LStrip(_)
LStrip(t) == IF t # <<>> /\ Head(t) = " " THEN LStrip(Tail(t)) ELSE t

RECURSIVE RStrip(_)
RStrip(t) == IF t # <<>> /\ t[Len(t)] = " " THEN RStrip(SubSeq(t, 1, Len(t) - 1)) ELSE t

\* str.strip()
StripText(t) == RStrip(LStrip(t))

\* str.replace(c, r): every occurrence of c becomes the characters r
RECURSIVE Replace(_, _, _)
Replace(t, c, r) ==
    IF t = <<>> THEN <<>>
    ELSE (IF Head(t) = c THEN r ELSE <<Head(t)>>) \o Replace(Tail(t), c, r)

\* clean_text
clean_text(t) == IF TextTruthy(t) THEN StripText(t) ELSE NoneText

\* re.search(r'\d[\d,]*', t): the text from its first digit on ...
RECURSIVE FromFirstDigit(_)
FromFirstDigit(t) ==
    IF t = <<>> \/ Head(t) \in Digits THEN t ELSE FromFirstDigit(Tail(t))

\* ... cut after the digits and commas that follow it
RECURSIVE DigitRun(_)
DigitRun(t) ==
    IF t = <<>> \/ Head(t) \notin Digits \cup {","} THEN <<>>
    ELSE <<Head(t)>> \o DigitRun(Tail(t))

\* match.group(0), or the empty text for no match
Search(t) == DigitRun(FromFirstDigit(t))

\* int(s) for a text of digits; a comma in it makes int() raise
RECURSIVE PyInt(_)
PyInt(run) ==
    IF Has(run, ",") THEN ValueError
    ELSE IF Len(run) = 1 THEN SomeInt(DigitValue(run[1]))
    ELSE SomeInt(PyInt(SubSeq(run, 1, Len(run) - 1)).val * 10 + DigitValue(run[Len(run)]))

\* extract_numeric
extract_numeric(t) ==
    IF ~TextTruthy(t) THEN NoInt
    ELSE LET m == Search(Replace(t, ",", <<>>))
         IN  IF m = <<>> THEN NoInt ELSE PyInt(m)

\* the 'k' handling of the follower count: follower_count_str.replace('k', '000')
HandleK(t) == Replace(t, "k", <<"0", "0", "0">>)

\* entry['host_follower_count']
HostFollowerCount(cell) ==
    LET follower_count_str == clean_text(cell)
    IN  IF TextTruthy(follower_count_str)
        THEN extract_numeric(HandleK(follower_count_str))
        ELSE NoInt

\* entry['listener_count']
ListenerCountOf(cell) == extract_numeric(clean_text(cell))

\* cell texts: every text of at most MaxText characters over a small alphabet,
\* None, and two texts as the page shows them
CellChars == {"1", "2", ",", ".", "k", " ", "x"}
Text_1234_listeners ==
    <<"1", ",", "2", "3", "4", " ", "l", "i", "s", "t", "e", "n", "e", "r", "s">>
Text_2_3k_followers ==
    <<"2", ".", "3", "k", " ", "f", "o", "l", "l", "o", "w", "e", "r", "s">>
Texts ==
    SeqsUpTo(CellChars, MaxText) \cup {NoneText, Text_1234_listeners, Text_2_3k_followers}

\* ------------------------------------------- the details region of a row
MonthNames ==
    {"Jan", "Feb", "Mar", "Apr", "May", "Jun", "Jul", "Aug", "Sep", "Oct", "Nov", "Dec"}

NoFields ==
    [space_ended_time_str |-> NoneText, space_speakers_count |-> NoInt,
     space_speaker_followers |-> NoInt, space_duration_str |-> NoneText]

\* the fragments a details region can hold
Frags ==
    {<<"Ended:", " ", "1">>, <<" ", "Ended:", " ", "2", " ">>,
     <<"Speakers:", " ", "1">>, <<"Speakers:", " ", "2">>,
     <<"Speaker followers:", " ", "1", ",", "2">>, <<"Speaker followers:", " ", "2">>,
     <<"Duration:", " ", "1">>, <<"Duration:", " ", "2">>,
     <<"Jan", " ", "1">>, <<"Feb", " ", "2">>,
     <<"Ended:", " ", "Duration:">>, <<"x">>, <<" ">>, <<>>}

\* mutant: the month heuristic does not look at the field
EndedUnset_Always(f) == TRUE

\* entry['space_ended_time_str'] is None
EndedUnset(f) == f.space_ended_time_str = NoneText

\* one pass of the loop over details_text_list
ScanOne(f, t) ==
    LET clean_t == clean_text(t)
    IN  IF ~TextTruthy(clean_t) THEN f
        ELSE IF Has(clean_t, "Ended:")
        THEN [f EXCEPT !.space_ended_time_str = StripText(Replace(clean_t, "Ended:", <<>>))]
        ELSE IF Has(clean_t, "Speakers:")
        THEN [f EXCEPT !.space_speakers_count = extract_numeric(clean_t)]
        ELSE IF Has(clean_t, "Speaker followers:")
        THEN [f EXCEPT !.space_speaker_followers = extract_numeric(clean_t)]
        ELSE IF Has(clean_t, "Duration:")
        THEN [f EXCEPT !.space_duration_str = StripText(Replace(clean_t, "Duration:", <<>>))]
        ELSE IF EndedUnset(f) /\ \E month \in MonthNames : Has(clean_t, month)
        THEN [f EXCEPT !.space_ended_time_str = clean_t]
        ELSE f

\* ------------------------------------------- the row adapter on its own
\* extract_data_from_row reads one cell or scans one details region; the run
\* itself stands still
AdapterInit ==
    /\ fe = "dom" /\ limit = 0 /\ scrolls = 0 /\ env_key = TRUE
    /\ pc = "extract" /\ session = "open" /\ i = 0
    /\ all_entries = <<>> /\ processed_keys = {} /\ pending = <<>>
    /\ round_status = "ok" /\ act_calls = 0 /\ scroll_calls = 0
    /\ failed = FALSE /\ output = NoFile
    /\ rows = <<>> /\ processed_count = 0 /\ error_count = 0 /\ clock = 0
    /\ first_seen = {} /\ dups = {}
    /\ fatal = "none" /\ no_list = FALSE
    /\ number = NoInt /\ fields = NoFields /\ scanned = <<>>
    /\ \/ fn_pc = "cell" /\ text \in Texts /\ details = <<>>
       \/ fn_pc = "details" /\ text = <<>> /\ details \in SeqsUpTo(Frags, MaxFrags)

main_vars ==
    <<fe, limit, scrolls, env_key, pc, session, i, all_entries, processed_keys,
      pending, round_status, act_calls, scroll_calls, failed, output,
      rows, processed_count, error_count, clock, first_seen, dups, fatal, no_list>>

\* the host cell: follower count
FollowerCount ==
    /\ fn_pc = "cell"
    /\ number' = HostFollowerCount(text)
    /\ fn_pc' = "follower"
    /\ UNCHANGED <<text, details, fields, scanned>>
    /\ UNCHANGED main_vars

\* the listener cell
ListenerCount ==
    /\ fn_pc = "cell"
    /\ number' = ListenerCountOf(text)
    /\ fn_pc' = "listener"
    /\ UNCHANGED <<text, details, fields, scanned>>
    /\ UNCHANGED main_vars

\* the next fragment of details_text_list
ScanFragment ==
    /\ fn_pc = "details"
    /\ details # <<>>
    /\ fields' = ScanOne(fields, Head(details))
    /\ details' = Tail(details)
    /\ scanned' = Append(scanned, Head(details))
    /\ UNCHANGED <<fn_pc, text, number>>
    /\ UNCHANGED main_vars

AdapterNext == FollowerCount \/ ListenerCount \/ ScanFragment

AdapterSpec == AdapterInit /\ [][AdapterNext]_vars


Next ==
    \/ CheckEnv
    \/ EnterSession
    \/ Act
    \/ ManualEntry
    \/ MergeEntry
    \/ Check
    \/ Scroll
    \/ ScrollAfterError
    \/ ExitSession
    \/ Finish
    \/ Launch
    \/ Goto
    \/ ProcessRow
    \/ CloseBrowser
    \/ Finally
    \/ DomSave

Spec == Init /\ [][Next]_vars


\* ================================================================ claims
\* the identity key under which a stored record of the agent-driven run was
\* registered
EntryKey(e) == IF e.direct_link_guess # Absent THEN GuessKey(e) ELSE DeriveKey(e)

StoredKeys == {EntryKey(all_entries[k]) : k \in 1..Len(all_entries)}

\* C1: in the agent-driven run, in every reachable state, the number of
\* accumulated records equals the number of identity keys, every stored record
\* is registered under its key and no two stored records share a key.
C1_RecordsMatchKeys ==
    fe = "agent" =>
        /\ Len(all_entries) = Cardinality(processed_keys)
        /\ StoredKeys = processed_keys
        /\ \A k, l \in 1..Len(all_entries) :
              EntryKey(all_entries[k]) = EntryKey(all_entries[l]) => k = l

\* records were accepted in more than one round, under url and pair keys
C1_Witness ==
    /\ fe = "agent" /\ act_calls >= 2
    /\ Len(all_entries) >= 2
    /\ \E k \in processed_keys : k.kind = "url"
    /\ \E k \in processed_keys : k.kind = "pair"

\* a structured candidate has a usable key: a direct url, or title and host
HasUsableKey(e) == Truthy(DirectUrl(e)) \/ (Truthy(TitleOf(e)) /\ Truthy(HostUrl(e)))

\* C2: in the agent-driven merge step a candidate without a direct url and
\* without both title and host is dropped: no such record is ever stored.
C2_KeylessNeverStored ==
    fe = "agent" =>
        \A k \in 1..Len(all_entries) :
            all_entries[k].direct_link_guess = Absent => HasUsableKey(all_entries[k])

\* C3: in the agent-driven merge step a candidate with a non-empty direct url
\* is keyed by the url alone (accepted iff the url is not yet a key), and one
\* without url but with title and host by the (title, host) pair (accepted iff
\* the pair is not yet a key); an accepted candidate is appended and its key
\* registered, a rejected one changes nothing.
C3_Expected(e) ==
    IF Truthy(DirectUrl(e)) THEN UrlKey(DirectUrl(e)) ELSE PairKey(TitleOf(e), HostUrl(e))

C3_Step ==
    (fe = "agent" /\ pc = "merge" /\ Head(pending).isdict
        /\ HasUsableKey(Head(pending)) /\ Hashable(C3_Expected(Head(pending)))) =>
    LET e == Head(pending)
        key == C3_Expected(e)
    IN  IF key \notin processed_keys
        THEN all_entries' = Append(all_entries, e)
             /\ processed_keys' = processed_keys \cup {key}
        ELSE all_entries' = all_entries /\ processed_keys' = processed_keys

C3_KeyFallbackChain == [][C3_Step]_vars

\* a url-keyed record of a candidate that also had title and host, and a
\* pair-keyed record, are both stored
C3_Witness ==
    /\ fe = "agent"
    /\ \E k \in 1..Len(all_entries) :
          LET e == all_entries[k]
          IN  e.direct_link_guess = Absent /\ Truthy(DirectUrl(e))
              /\ Truthy(TitleOf(e)) /\ Truthy(HostUrl(e))
    /\ \E k \in 1..Len(all_entries) :
          LET e == all_entries[k]
          IN  e.direct_link_guess = Absent /\ ~Truthy(DirectUrl(e))
              /\ Truthy(TitleOf(e)) /\ Truthy(HostUrl(e))

\* C4: dedup is idempotent: however often a candidate with a given identity
\* key is merged (in one round or in several), it is counted once: the
\* accepted count equals the number of distinct keys that were merged.
C4_IdempotentDedup ==
    Len(all_entries) = Cardinality({p.key : p \in first_seen})

\* the same candidate was merged a second time
C4_Witness ==
    /\ "same" \in dups
    /\ Len(all_entries) >= 1

\* C5: first-writer-wins: the record stored under a key is the first
\* candidate that arrived with that key, and no step changes or replaces a
\* record that is already stored.
C5_StoredIsFirst ==
    \A k \in 1..Len(all_entries) :
        \E p \in first_seen :
            /\ p.entry = all_entries[k]
            /\ \A l \in 1..Len(all_entries) : (all_entries[l] = p.entry) => l = k

C5_Kept ==
    /\ Len(all_entries') >= Len(all_entries)
    /\ \A k \in 1..Len(all_entries) : all_entries'[k] = all_entries[k]

C5_FirstWriterWins == [](C5_StoredIsFirst) /\ [][C5_Kept]_vars

\* a later candidate with the same key and other field values was merged
C5_Witness ==
    /\ "other" \in dups
    /\ Len(all_entries) >= 1

\* C6: the accepted count never decreases: no step of either front-end
\* removes a record from the accumulated records or a key from the key set.
C6_Step ==
    /\ Len(all_entries') >= Len(all_entries)
    /\ Cardinality(processed_keys') >= Cardinality(processed_keys)
    /\ processed_keys \subseteq processed_keys'
    /\ \A k \in 1..Len(all_entries) :
          \E l \in 1..Len(all_entries') : all_entries'[l] = all_entries[k]

C6_Monotone == [][C6_Step]_vars

\* the count grew in two different rounds of one run
C6_Witness ==
    /\ fe = "agent" /\ pc = "check" /\ i >= 1 /\ round_status = "ok"
    /\ limit >= 2 /\ Len(all_entries) >= limit

\* C7: with scroll count N >= 0 the agent-driven run performs at most N + 1
\* extraction rounds, exactly N + 1 when it ends without a hard failure and
\* with the target not reached, and it reaches the terminal state: a step is
\* possible until the run is done, and every step lowers a bounded measure.
C7_Rounds ==
    fe = "agent" =>
        /\ act_calls <= scrolls + 1
        /\ (pc = "done" /\ env_key /\ ~failed /\ Len(all_entries) < limit)
              => act_calls = scrolls + 1

\* every step of the run lowers this measure: the rounds left, then the
\* position within the round, then the items left in the answer
C7_Rank ==
    CASE pc = "done" -> 0
      [] pc = "finish" -> 1
      [] pc = "exit" -> 2
      [] pc = "act" -> 3
      [] pc \in {"enter", "scroll", "errscroll"} -> 4
      [] pc \in {"start", "check"} -> 5
      [] OTHER -> 5 + Len(pending)

C7_Measure == (scrolls + 1 - act_calls) * (MaxBatch + 6) + C7_Rank

C7_Progress == fe = "agent" => (C7_Measure' < C7_Measure /\ C7_Measure' >= 0)

C7_NotStuck == (fe = "agent" /\ pc # "done") => ENABLED Next

C7_RoundBudget == [](C7_Rounds /\ C7_NotStuck) /\ [][C7_Progress]_vars

\* a run with at least one scroll used its whole budget without reaching the target
C7_Witness ==
    /\ fe = "agent" /\ pc = "done" /\ ~failed
    /\ scrolls >= 1 /\ act_calls = scrolls + 1
    /\ Len(all_entries) < limit

\* C8 as stated: once the accepted count has reached the target at the end
\* of a round, no scroll action and no further extraction call is issued.
C8_StopsAtTarget ==
    (fe = "agent" /\ (pc \in {"scroll", "errscroll"} \/ (pc = "act" /\ i >= 1)))
        => Len(all_entries) < limit

\* C8 amended: the target check is made at the end of every round whose answer
\* carried no error attribute; after such a round with the count at or above
\* the target nothing more is issued. With limit >= 1 this covers every round.
C8_StopsAtTargetChecked ==
    /\ (fe = "agent" /\ (pc = "scroll" \/ (pc = "act" /\ i >= 1 /\ round_status # "error")))
          => Len(all_entries) < limit
    /\ limit >= 1 => C8_StopsAtTarget

\* the loop was left on the target although scrolls were still permitted
C8_Witness ==
    /\ fe = "agent" /\ pc = "exit" /\ round_status = "ok" /\ ~failed
    /\ limit >= 1 /\ Len(all_entries) >= limit
    /\ i < scrolls

\* C9 as stated (read here for a positive target): a failed round (error
\* attribute, or processing raised) that is not the last permitted round never
\* ends the run: the loop is left after a failed round, without a hard failure,
\* only when i = scrolls.
C9_FailedRoundGoesOn ==
    (fe = "agent" /\ limit >= 1 /\ round_status # "ok"
        /\ pc \in {"exit", "finish", "done"} /\ ~failed)
        => i = scrolls

\* C9 amended: ... except that a round whose processing raised after the
\* accepted count had reached the target ends the run like any other round;
\* and a scroll that returns is followed by extraction round i + 1.
C9_FailedInv ==
    (fe = "agent" /\ round_status # "ok" /\ pc \in {"exit", "finish", "done"} /\ ~failed)
        => (i = scrolls \/ (round_status = "raised" /\ Len(all_entries) >= limit))

C9_ScrollStep ==
    (fe = "agent" /\ pc \in {"scroll", "errscroll"} /\ ~failed')
        => (pc' = "act" /\ i' = i + 1 /\ scroll_calls' = scroll_calls + 1)

C9_RoundsIndependent == [](C9_FailedInv) /\ [][C9_ScrollStep]_vars

\* after a failed round a scroll was issued and the next extraction is due
C9_Witness ==
    /\ fe = "agent" /\ pc = "act" /\ i >= 1
    /\ round_status \in {"error", "raised"}
    /\ scroll_calls = i

\* C10: in the DOM-driven run a pass over the rows that ends below the target
\* with scrolls left is followed by a scroll and another pass: a run that ends
\* without failure below the target has used all its scrolls.
C10_DomScrolls ==
    (fe = "dom" /\ pc = "done" /\ act_calls >= 1 /\ ~failed
        /\ Len(all_entries) < limit)
        => scroll_calls >= scrolls

\* ------------------------------------------- C11
\* C11: the numeric field of the DOM row adapter (scale suffix handled, then
\* extract_numeric) is 1234 for "1,234 listeners", 2300 for "2.3k followers", and
\* None for every text without a digit; it is never zero for such a text and
\* never an error.
C11_NoDigit == \A d \in Digits : ~Has(text, d)

C11_NumericExtraction ==
    fn_pc = "follower" =>
        /\ text = Text_1234_listeners => number = SomeInt(1234)
        /\ text = Text_2_3k_followers => number = SomeInt(2300)
        /\ C11_NoDigit => number = NoInt
        /\ number # ValueError

\* ------------------------------------------- C12
\* C12: in the DOM-driven run a row whose extraction fails gives a failure-marked
\* entry and nothing else: the loop goes on with the next row (it ends only when
\* the rows are exhausted or the target is reached), and no entry with an
\* 'error' field is ever among the accumulated records or in the written output.
C12_NoFailedStored ==
    fe = "dom" =>
        /\ \A k \in 1..Len(all_entries) : all_entries[k].error = Absent
        /\ \A k \in 1..Len(output.data) : output.data[k].error = Absent

C12_LoopEnd ==
    (fe = "dom" /\ pc = "close") =>
        (i = Len(rows) \/ Len(all_entries) >= limit)

C12_Step ==
    (fe = "dom" /\ pc = "rows" /\ i < Len(rows) /\ Len(all_entries) < limit
        /\ rows[i + 1].outcome # "ok")
    => /\ pc' = "rows"
       /\ i' = i + 1
       /\ all_entries' = all_entries
       /\ processed_keys' = processed_keys
       /\ failed' = failed

C12_RowFailureIsolated == [](C12_NoFailedStored /\ C12_LoopEnd) /\ [][C12_Step]_vars

\* a failed first row, a second row stored after it and written
C12_Witness ==
    /\ fe = "dom" /\ pc = "done"
    /\ Len(rows) = 2 /\ rows[1].outcome = "error" /\ rows[2].outcome = "ok"
    /\ Len(all_entries) = 1
    /\ output.state = "written"

\* ------------------------------------------- C13
\* C13: every failed row of the DOM-driven run carries a fallback identity that
\* is not the identity of any stored record, and every failed row is counted:
\* error_count is the number of rows processed so far whose extraction failed.
C13_FailedSoFar == {k \in 1..i : rows[k].outcome # "ok"}

C13_FailedRowsCounted ==
    fe = "dom" =>
        /\ error_count = Cardinality(C13_FailedSoFar)
        /\ \A k \in C13_FailedSoFar : \A j \in 1..Len(all_entries) :
                \A ts \in 0..clock :
                    ExtractDataFromRow(rows[k], ts).id # all_entries[j].id

\* ------------------------------------------- C14
\* C14: an exception raised by navigation, by an extraction call or by a scroll
\* action ends the extraction loop, and the records accumulated up to it still
\* go to the save: if there are any, the write is attempted, and what it writes
\* is exactly those records.
C14_RunFatal == fatal \in {"navigation", "extraction", "scroll"}

C14_LoopEnded ==
    C14_RunFatal =>
        /\ act_calls' = act_calls
        /\ scroll_calls' = scroll_calls
        /\ all_entries' = all_entries
        /\ processed_keys' = processed_keys

C14_Saved ==
    (C14_RunFatal /\ pc \in {"done", "escaped"} /\ all_entries # <<>>) =>
        /\ output.state \in {"written", "failed"}
        /\ output.state = "written" => output.data = all_entries

C14_FatalStillSaves == [](C14_Saved) /\ [][C14_LoopEnded]_vars

\* a scroll raised after a record had been accepted; the record is in the file
C14_Witness ==
    /\ fe = "agent" /\ pc = "done"
    /\ fatal = "scroll"
    /\ Len(all_entries) >= 1
    /\ output = [state |-> "written", data |-> all_entries]

\* ------------------------------------------- C15
\* C15: on every exit path of either front-end on which the session or browser
\* was acquired it is released: closed by the exit of the `with` block or by
\* browser.close() in the finally clause (left to the stop of playwright only
\* when browser.close() itself raised), also on the early return with no rows
\* and on every exception path.
C15_Released ==
    (pc \in {"done", "escaped"} /\ session # "none") =>
        /\ session \in {"closed", "stopped"}
        /\ session = "stopped" => fatal = "close"

\* the DOM run returned early because no strategy found a row
C15_Witness ==
    /\ fe = "dom" /\ pc = "done"
    /\ session = "closed"
    /\ act_calls = 0 /\ ~failed

\* ------------------------------------------- C16
\* C16: without NOVA_ACT_API_KEY the agent-driven run ends without starting a
\* session, without any extraction or scroll call and without touching the
\* output file.
C16_NoKeyNoRun ==
    (fe = "agent" /\ ~env_key) =>
        /\ pc \in {"start", "done"}
        /\ session = "none"
        /\ act_calls = 0 /\ scroll_calls = 0
        /\ all_entries = <<>>
        /\ output = NoFile

C16_Witness == fe = "agent" /\ ~env_key /\ pc = "done"

\* ------------------------------------------- C17
\* C17: no exception leaves the run function of either front-end, whatever fails
\* (session start-up, navigation, extraction, scrolling, browser close, the
\* save); a failed save is reported after the run and leaves the records in
\* memory as they were.
C17_NoExceptionEscapes ==
    /\ pc # "escaped"
    /\ output.state = "failed" => (pc = "done" /\ all_entries # <<>>)

\* ------------------------------------------- C18
\* C18: the records of the manual (regex) parse take part in the same dedup as
\* the structured ones: each match is a candidate keyed by its URL in the one
\* key set, it is stored only if that URL is not registered yet, and a later
\* structured candidate with the same direct URL is rejected; so no two stored
\* records share a URL.
C18_UrlOf(e) ==
    IF e.direct_link_guess # Absent THEN e.direct_link_guess ELSE DirectUrl(e)

C18_OneRecordPerUrl ==
    fe = "agent" =>
        \A k, l \in 1..Len(all_entries) :
            (k # l /\ Truthy(C18_UrlOf(all_entries[k])))
                => C18_UrlOf(all_entries[k]) # C18_UrlOf(all_entries[l])

C18_ManualStep ==
    pc = "manual" =>
        LET e == Head(pending)
            key == UrlKey(e.direct_link_guess)
        IN  IF key \in processed_keys
            THEN all_entries' = all_entries /\ processed_keys' = processed_keys
            ELSE /\ all_entries' = Append(all_entries, e)
                 /\ processed_keys' = processed_keys \cup {key}

C18_FallbackDeduplicates == [](C18_OneRecordPerUrl) /\ [][C18_ManualStep]_vars

\* a record of the manual parse is stored, and a structured candidate with its
\* URL came in a later round and was rejected
C18_Witness ==
    /\ fe = "agent" /\ pc = "check" /\ i >= 1
    /\ Len(all_entries) = 1
    /\ all_entries[1].direct_link_guess = "u1"
    /\ "other" \in dups

\* ------------------------------------------- C19
\* C19 (as stated): in the details scan of a row the first match wins for each
\* field (ended-time, speakers count, speaker-followers, duration): no later
\* fragment overwrites a field that is already filled, whatever the order.
C19_NoOverwrite ==
    fn_pc = "details" =>
        /\ fields.space_ended_time_str # NoneText
              => fields'.space_ended_time_str = fields.space_ended_time_str
        /\ fields.space_speakers_count # NoInt
              => fields'.space_speakers_count = fields.space_speakers_count
        /\ fields.space_speaker_followers # NoInt
              => fields'.space_speaker_followers = fields.space_speaker_followers
        /\ fields.space_duration_str # NoneText
              => fields'.space_duration_str = fields.space_duration_str

C19_FirstMatchWins == [][C19_NoOverwrite]_vars

\* the label that decides what a fragment is, in the order the scan tests them
C19_Label(t) ==
    LET c == clean_text(t)
    IN  IF ~TextTruthy(c) THEN "blank"
        ELSE IF Has(c, "Ended:") THEN "Ended:"
        ELSE IF Has(c, "Speakers:") THEN "Speakers:"
        ELSE IF Has(c, "Speaker followers:") THEN "Speaker followers:"
        ELSE IF Has(c, "Duration:") THEN "Duration:"
        ELSE IF \E month \in MonthNames : Has(c, month) THEN "month"
        ELSE "other"

\* the scanned fragments with a label: positions, the last and the first of them
C19_At(label) == {k \in 1..Len(scanned) : C19_Label(scanned[k]) = label}
C19_Last(label) == CHOOSE k \in C19_At(label) : \A l \in C19_At(label) : l <= k
C19_First(label) == CHOOSE k \in C19_At(label) : \A l \in C19_At(label) : k <= l

\* C19 (amended): a fragment with one of the four labels always sets its field,
\* so for each field the last labelled fragment wins; only the month heuristic
\* is first-match: it fills the ended-time while that is unset, and never
\* changes a filled field.
C19_Fields ==
    fn_pc = "details" =>
        /\ fields.space_ended_time_str =
              IF C19_At("Ended:") # {}
              THEN StripText(Replace(clean_text(scanned[C19_Last("Ended:")]), "Ended:", <<>>))
              ELSE IF C19_At("month") # {}
              THEN clean_text(scanned[C19_First("month")])
              ELSE NoneText
        /\ fields.space_speakers_count =
              IF C19_At("Speakers:") # {}
              THEN extract_numeric(clean_text(scanned[C19_Last("Speakers:")]))
              ELSE NoInt
        /\ fields.space_speaker_followers =
              IF C19_At("Speaker followers:") # {}
              THEN extract_numeric(clean_text(scanned[C19_Last("Speaker followers:")]))
              ELSE NoInt
        /\ fields.space_duration_str =
              IF C19_At("Duration:") # {}
              THEN StripText(Replace(clean_text(scanned[C19_Last("Duration:")]), "Duration:", <<>>))
              ELSE NoneText

C19_HeuristicKeeps ==
    (fn_pc = "details" /\ details # <<>>
        /\ C19_Label(Head(details)) \in {"month", "other", "blank"}
        /\ fields.space_ended_time_str # NoneText)
    => fields' = fields

C19_LastLabelledWins == [](C19_Fields) /\ [][C19_HeuristicKeeps]_vars

\* two fragments labelled Ended: were scanned; the field holds the second
C19_Witness ==
    /\ fn_pc = "details" /\ details = <<>>
    /\ scanned = << <<"Ended:", " ", "1">>, <<" ", "Ended:", " ", "2", " ">> >>
    /\ fields.space_ended_time_str = <<"2">>

\* ------------------------------------------- C20
\* C20: a payload that is neither a list nor a mapping with a list value, in a
\* round where the regex fallback does not apply, aborts nothing: the round
\* yields no candidate, leaves all_entries and the key set as they were, and
\* the run goes on to the target check and from there to the next scroll and
\* round as after any other round.
C20_ActStep ==
    (pc = "act" /\ no_list') =>
        /\ pc' = "check"
        /\ pending' = <<>>
        /\ all_entries' = all_entries
        /\ processed_keys' = processed_keys
        /\ failed' = failed
        /\ round_status' = "ok"

C20_CheckStep ==
    (pc = "check" /\ no_list) =>
        /\ pc' = IF Len(all_entries) >= limit THEN "exit"
                 ELSE IF i < scrolls THEN "scroll" ELSE "exit"
        /\ all_entries' = all_entries
        /\ processed_keys' = processed_keys

C20_NoAbort == [][C20_ActStep /\ C20_CheckStep]_vars

\* after a round without list the run scrolled and called the agent again
C20_Witness ==
    /\ fe = "agent" /\ pc = "act" /\ i = 1
    /\ no_list /\ ~failed
    /\ act_calls = 1 /\ scroll_calls = 1

\* ------------------------------------------- C21
\* C21: the output is written at most once per run, only after the extraction
\* loop has ended, and not at all when no record was accepted; what is written
\* is exactly the accumulated records in the order of their acceptance.
C21_AfterLoop ==
    output # NoFile =>
        /\ pc = "done"
        /\ all_entries # <<>>
        /\ output.state = "written" => output.data = all_entries

C21_Step ==
    /\ output # NoFile => output' = output
    /\ output' # output => all_entries' = all_entries
    /\ all_entries' # all_entries =>
          /\ Len(all_entries') = Len(all_entries) + 1
          /\ SubSeq(all_entries', 1, Len(all_entries)) = all_entries

C21_SingleWrite == [](C21_AfterLoop) /\ [][C21_Step]_vars

\* the DOM run stored two rows and wrote them in the order of the table
C21_Witness ==
    /\ fe = "dom" /\ pc = "done"
    /\ Len(all_entries) = 2
    /\ output = [state |-> "written", data |-> all_entries]
    /\ all_entries[1].id = RowId(rows[1])
    /\ all_entries[2].id = RowId(rows[2])

\* ------------------------------------------- C22
\* C22: in the DOM-driven run with limit >= 0 the number of stored entries never
\* exceeds the target: len(all_entries) <= limit in every reachable state.
C22_WithinTarget == (fe = "dom" /\ limit >= 0) => Len(all_entries) <= limit

\* the break of the row loop was taken with rows left over
C22_Witness ==
    /\ fe = "dom" /\ pc = "close"
    /\ limit >= 1 /\ Len(all_entries) = limit
    /\ i < Len(rows)

\* ------------------------------------------- C23
\* C23: in the agent-driven run one scroll action is issued between any two
\* consecutive extraction calls, after an error answer as after any other, and
\* none after the last round; so the scroll actions of a run are at most
\* `scrolls`, and one less than the extraction calls when the run ends without
\* a raised exception.
C23_Counts ==
    fe = "agent" =>
        /\ scroll_calls <= scrolls
        /\ pc = "act" => scroll_calls = act_calls
        /\ pc \in {"manual", "merge", "check", "scroll", "errscroll", "exit"}
              => scroll_calls = act_calls - 1
        /\ (pc \in {"finish", "done"} /\ act_calls >= 1 /\ fatal \in {"none", "close"})
              => scroll_calls = act_calls - 1

C23_ScrollStep ==
    (fe = "agent" /\ scroll_calls' # scroll_calls) =>
        /\ scroll_calls' = scroll_calls + 1
        /\ act_calls' = act_calls
        /\ pc \in {"scroll", "errscroll"}
        /\ pc' = "act" \/ fatal' = "scroll"

C23_OneScrollPerRound == [](C23_Counts) /\ [][C23_ScrollStep]_vars

\* two rounds, the second answered with an error attribute: one scroll in all
C23_Witness ==
    /\ fe = "agent" /\ pc = "done" /\ ~failed
    /\ act_calls = 2 /\ scroll_calls = 1
    /\ round_status = "error"

====
